---- MODULE Spec2Model ----
(***************************************************************************)
(* Model of the workflow builder's AI prompt handler (handleGenerate in    *)
(* the AIPrompt component) and of the Shopify integration steps            *)
(* (getOrderStep, listOrdersStep, updateInventoryStep, createProductStep)  *)
(* and of generateImageStep.                                               *)
(*                                                                         *)
(* JavaScript values are modelled as strings; Undef and Null stand for     *)
(* undefined and null.  An optional array is a sequence plus a flag that   *)
(* says whether the field is present.                                      *)
(***************************************************************************)
EXTENDS Integers, Sequences, FiniteSets, TLC

VARIABLES
    \* ---- AIPrompt component: props, atoms and component state
    workflowId,            \* prop workflowId (Undef on the creation path)
    nodes,                 \* nodesAtom
    edges,                 \* edgesAtom
    currentWorkflowId,     \* currentWorkflowIdAtom
    currentWorkflowName,   \* currentWorkflowNameAtom
    selectedNodeId,        \* selectedNodeAtom
    isGenerating,          \* isGeneratingAtom
    prompt,                \* useState prompt
    \* ---- one handleGenerate invocation
    pc,                    \* position of the async handler
    existingWorkflow,      \* whether existingWorkflow was built (hasNodes)
    workflowData,          \* the AI response as the handler holds (and mutates) it
    validEdges,            \* local validEdges
    toasts,                \* toast.* calls, in order
    apiCalls,              \* api.* calls, in order
    notified,              \* argument of onWorkflowCreated, if called
    \* ---- observation of the run (history)
    candidate,             \* the AI response as received
    validation,            \* "pending" | "failed" | "passed"
    persistence,           \* "none" | "ok" | "failed": how create/update ended
    store0,                \* the atoms when handleGenerate started
    \* ---- one Shopify step invocation
    step,                  \* which step function is invoked
    integrationId,         \* input.integrationId
    integrationStore,      \* what the credential store holds for the integration
    adjustment,            \* input.adjustment (updateInventoryStep)
    spc,                   \* position of the async step
    credentials,           \* the resolved credential set
    resolverCalls,         \* number of fetchCredentials calls
    adjustmentValue,       \* local adjustmentValue
    previousQuantity,      \* local previousQuantity
    httpCalls,             \* fetch calls, in order
    responses,             \* what each fetch call ended with, in order
    result,                \* the value the step returned
    serverQty,             \* the shop's inventory level (external)
    \* ---- observation of the step (history)
    getRead,               \* the level the answer to the GET carried (-1: none)
    interfered             \* another client changed the level after that answer

uiVars == <<workflowId, nodes, edges, currentWorkflowId, currentWorkflowName,
            selectedNodeId, isGenerating, prompt, pc, existingWorkflow,
            workflowData, validEdges, toasts, apiCalls, notified, candidate,
            validation, persistence, store0>>

stepVars == <<step, integrationId, integrationStore, adjustment, spc,
              credentials, resolverCalls, adjustmentValue, previousQuantity,
              httpCalls, responses, result, serverQty, getRead, interfered>>

vars == <<uiVars, stepVars>>

(***************************************************************************)
(* JavaScript values                                                       *)
(***************************************************************************)
Undef == "<undefined>"
Null == "<null>"
ObjectValue == "<object>"

\* JavaScript truthiness of a value (undefined, null and "" are falsy).
Truthy(v) == v \notin {Undef, Null, ""}

\* a || b
OrElse(a, b) == IF Truthy(a) THEN a ELSE b

(***************************************************************************)
(* Bounds                                                                  *)
(***************************************************************************)
MaxNodes == 3
MaxEdges == 1
MaxStrLen == 3
MaxQty == 2

(***************************************************************************)
(* Graph values                                                            *)
(***************************************************************************)
Node(id, type, triggerType, actionType, selected) ==
    [id |-> id, type |-> type,
     data |-> [type |-> type,
               config |-> [triggerType |-> triggerType, actionType |-> actionType]],
     selected |-> selected]

Edge(source, target, type) == [source |-> source, target |-> target, type |-> type]

\* Nodes an AI response is built from: complete and incomplete triggers and
\* actions, a condition node, some marked selected.
NodePool ==
    { Node("t1", "trigger", "Webhook", Undef, FALSE),
      Node("t2", "trigger", "Schedule", Undef, TRUE),
      Node("t3", "trigger", "", "Send Email", FALSE),
      Node("a1", "action", Undef, "HTTP Request", TRUE),
      Node("a2", "action", "Webhook", Undef, FALSE),
      Node("c1", "condition", Undef, Undef, FALSE) }

\* Edges an AI response is built from: every kind of type value, and one edge
\* whose target is the id of no node.
EdgePool ==
    { Edge("t1", "a1", Undef),
      Edge("t2", "a1", "default"),
      Edge("t1", "t2", Null),
      Edge("a1", "x9", "animated") }

SeqsUpTo(S, n) == UNION { [1..k -> S] : k \in 0..n }

Names == {Undef, "Order Sync"}

\* The responses api.ai.generate may resolve with: node ids are unique
\* within a graph, the nodes, edges and name fields may be missing.
Candidates ==
    { c \in [nodes : SeqsUpTo(NodePool, MaxNodes), nodesPresent : BOOLEAN,
             edges : SeqsUpTo(EdgePool, MaxEdges), edgesPresent : BOOLEAN,
             name : Names, description : {Undef}] :
        /\ (~c.nodesPresent => c.nodes = <<>>)
        /\ (~c.edgesPresent => c.edges = <<>>)
        /\ \A i, j \in 1..Len(c.nodes) : c.nodes[i].id = c.nodes[j].id => i = j }

NoData == [nodes |-> <<>>, nodesPresent |-> FALSE, edges |-> <<>>,
           edgesPresent |-> FALSE, name |-> Undef, description |-> Undef]

(***************************************************************************)
(* handleGenerate: the validation pass (list-orders.ts 288-363)            *)
(***************************************************************************)
\* workflowData.nodes || []
NodesOrEmpty(wd) == IF wd.nodesPresent THEN wd.nodes ELSE <<>>

\* workflowData.edges || []
EdgesOrEmpty(wd) == IF wd.edgesPresent THEN wd.edges ELSE <<>>

\* Variant: the type is set only where the AI gave none.
AnimatedEdgeIfMissing(edge) == [edge EXCEPT !.type = OrElse(edge.type, "animated")]

\* { ...edge, type: "animated" }
AnimatedEdge(edge) == [edge EXCEPT !.type = "animated"]

edgesWithAnimatedType(wd) ==
    [i \in 1..Len(EdgesOrEmpty(wd)) |-> AnimatedEdge(EdgesOrEmpty(wd)[i])]

IsTrigger(node) == node.data.type = "trigger"

triggerNodes(wd) == SelectSeq(NodesOrEmpty(wd), IsTrigger)

nonTriggerNodes(wd) == SelectSeq(NodesOrEmpty(wd), LAMBDA n : ~IsTrigger(n))

\* Variant: the reduction also runs for a single trigger.
AnyTrigger(count) == count >= 1

\* triggerNodes.length > 1
TooManyTriggers(count) == count > 1

\* Variant: every trigger is kept.
KeptNodesAllTriggers(wd) == triggerNodes(wd) \o nonTriggerNodes(wd)

\* [firstTrigger, ...nonTriggerNodes]
KeptNodes(wd) == <<triggerNodes(wd)[1]>> \o nonTriggerNodes(wd)

\* Variant: the id of the first trigger is listed too.
removedTriggerIdsAll(wd) ==
    { triggerNodes(wd)[i].id : i \in 1..Len(triggerNodes(wd)) }

\* triggerNodes.slice(1).map((n) => n.id)
removedTriggerIds(wd) ==
    { triggerNodes(wd)[i].id : i \in 2..Len(triggerNodes(wd)) }

\* Variants: only one end of the edge is looked up.
KeepsEdgeSourceOnly(edge, removed) == edge.source \notin removed

KeepsEdgeTargetOnly(edge, removed) == edge.target \notin removed

\* !removedTriggerIds.includes(edge.source) && !removedTriggerIds.includes(edge.target)
KeepsEdge(edge, removed) == edge.source \notin removed /\ edge.target \notin removed

\* Variant: action nodes are not checked.
IsIncompleteTriggersOnly(node) ==
    node.data.type = "trigger" /\ ~Truthy(node.data.config.triggerType)

\* The filter callback of incompleteNodes.
IsIncomplete(node) ==
    IF node.data.type = "trigger" THEN ~Truthy(node.data.config.triggerType)
    ELSE IF node.data.type = "action" THEN ~Truthy(node.data.config.actionType)
    ELSE FALSE

incompleteNodes(wd) == SelectSeq(NodesOrEmpty(wd), IsIncomplete)

\* Lines 288-363 on an AI response wd: the mutated workflowData, validEdges,
\* whether toast.warning was called and how many incomplete nodes remain.
ValidationPass(wd) ==
    LET many == TooManyTriggers(Len(triggerNodes(wd)))
        reduced == IF many
                   THEN [wd EXCEPT !.nodes = KeptNodes(wd), !.nodesPresent = TRUE]
                   ELSE wd
        kept == IF many
                THEN SelectSeq(edgesWithAnimatedType(wd),
                               LAMBDA e : KeepsEdge(e, removedTriggerIds(wd)))
                ELSE edgesWithAnimatedType(wd)
    IN  [workflowData |-> reduced, validEdges |-> kept, warned |-> many,
         incomplete |-> Len(incompleteNodes(reduced))]

(***************************************************************************)
(* handleGenerate: the handler (list-orders.ts 253-448).  The model        *)
(* follows one invocation from each initial store; every await is a        *)
(* position of pc.                                                         *)
(***************************************************************************)
Toast(level, message) == [level |-> level, message |-> message]

WarnRemovedTriggers ==
    Toast("warning", "Removed extra triggers (workflows can only have 1 trigger)")

ErrorFailed == Toast("error", "Failed to generate workflow")

Call(api, id, name, description, ns, np, es) ==
    [api |-> api, id |-> id, name |-> name, description |-> description,
     nodes |-> ns, nodesPresent |-> np, edges |-> es]

\* The id api.workflow.create answers with.
NewWorkflowId == "wf-new"

\* nodes.filter((node) => node.type !== "add")
realNodes == SelectSeq(nodes, LAMBDA n : n.type # "add")

hasNodes == Len(realNodes) > 0

Prompts == {"", "   ", "Sync Shopify orders to Slack"}

\* prompt.trim()
Trim(p) == IF p = "   " THEN "" ELSE p

Atoms == [nodes |-> nodes, edges |-> edges,
          currentWorkflowId |-> currentWorkflowId,
          currentWorkflowName |-> currentWorkflowName,
          selectedNodeId |-> selectedNodeId]

\* workflowData.nodes?.find((n) => n.selected): the position of the first
\* node marked selected, 0 when there is none.
FirstSelected(wd) ==
    LET marked == { i \in 1..Len(NodesOrEmpty(wd)) : NodesOrEmpty(wd)[i].selected }
    IN  IF marked = {} THEN 0
        ELSE CHOOSE i \in marked : \A j \in marked : i <= j

\* The textarea's onChange; the textarea is disabled while generating.
SetPrompt(p) ==
    /\ pc = "idle"
    /\ ~isGenerating
    /\ prompt' = p
    /\ UNCHANGED <<workflowId, nodes, edges, currentWorkflowId,
                   currentWorkflowName, selectedNodeId, isGenerating, pc,
                   existingWorkflow, workflowData, validEdges, toasts, apiCalls,
                   notified, candidate, validation, persistence, store0>>
    /\ UNCHANGED stepVars

\* handleGenerate called with a blank prompt or while generating: returns.
HandleGenerateReturns ==
    /\ (~Truthy(Trim(prompt)) \/ isGenerating)
    /\ UNCHANGED vars

\* handleGenerate up to its first await, api.ai.generate.
HandleGenerate ==
    /\ pc = "idle"
    /\ ~(~Truthy(Trim(prompt)) \/ isGenerating)
    /\ isGenerating' = TRUE
    /\ existingWorkflow' = hasNodes
    /\ apiCalls' = Append(apiCalls,
                          Call("ai.generate", Undef,
                               IF hasNodes THEN currentWorkflowName ELSE Undef,
                               Undef,
                               IF hasNodes THEN realNodes ELSE <<>>, hasNodes,
                               IF hasNodes THEN edges ELSE <<>>))
    /\ store0' = Atoms
    /\ pc' = "awaitGenerate"
    /\ UNCHANGED <<workflowId, nodes, edges, currentWorkflowId,
                   currentWorkflowName, selectedNodeId, prompt, workflowData,
                   validEdges, toasts, notified, candidate, validation,
                   persistence>>
    /\ UNCHANGED stepVars

\* Variant: no finally block.
CaughtWithoutFinally ==
    /\ toasts' = Append(toasts, ErrorFailed)
    /\ isGenerating' = isGenerating
    /\ pc' = "done"

\* catch: toast.error; finally: setIsGenerating(false).
Caught ==
    /\ toasts' = Append(toasts, ErrorFailed)
    /\ isGenerating' = FALSE
    /\ pc' = "done"

\* api.ai.generate rejects.
GenerateRejects ==
    /\ pc = "awaitGenerate"
    /\ Caught
    /\ UNCHANGED <<workflowId, nodes, edges, currentWorkflowId,
                   currentWorkflowName, selectedNodeId, prompt, existingWorkflow,
                   workflowData, validEdges, apiCalls, notified, candidate,
                   validation, persistence, store0>>
    /\ UNCHANGED stepVars

Warnings(v) == IF v.warned THEN <<WarnRemovedTriggers>> ELSE <<>>

\* api.ai.generate resolves with c and the completeness check throws.
GenerateResolvesIncomplete ==
    /\ pc = "awaitGenerate"
    /\ \E c \in Candidates :
            LET v == ValidationPass(c) IN
            /\ v.incomplete > 0
            /\ candidate' = c
            /\ workflowData' = v.workflowData
            /\ validEdges' = v.validEdges
            /\ validation' = "failed"
            /\ toasts' = (toasts \o Warnings(v)) \o <<ErrorFailed>>
            /\ isGenerating' = FALSE
            /\ pc' = "done"
            /\ UNCHANGED <<workflowId, nodes, edges, currentWorkflowId,
                           currentWorkflowName, selectedNodeId, prompt, existingWorkflow,
                           apiCalls, notified, persistence, store0>>
            /\ UNCHANGED stepVars

\* api.ai.generate resolves with c, validation passes, no workflowId: the
\* handler runs up to await api.workflow.create.
GenerateResolvesCreate ==
    /\ pc = "awaitGenerate"
    /\ \E c \in Candidates :
            LET v == ValidationPass(c)
                wd == v.workflowData IN
            /\ v.incomplete = 0
            /\ ~Truthy(workflowId)
            /\ candidate' = c
            /\ workflowData' = wd
            /\ validEdges' = v.validEdges
            /\ validation' = "passed"
            /\ toasts' = toasts \o Warnings(v)
            /\ apiCalls' = Append(apiCalls,
                                  Call("workflow.create", Undef,
                                       OrElse(wd.name, "AI Generated Workflow"),
                                       OrElse(wd.description, ""),
                                       NodesOrEmpty(wd), TRUE, v.validEdges))
            /\ pc' = "awaitCreate"
            /\ UNCHANGED <<workflowId, nodes, edges, currentWorkflowId,
                           currentWorkflowName, selectedNodeId, isGenerating, prompt,
                           existingWorkflow, notified, persistence, store0>>
            /\ UNCHANGED stepVars

\* api.workflow.create resolves: the atoms are set, the parent is notified,
\* the prompt is cleared.
CreateResolves ==
    /\ pc = "awaitCreate"
    /\ nodes' = NodesOrEmpty(workflowData)
    /\ edges' = validEdges
    /\ currentWorkflowId' = NewWorkflowId
    /\ currentWorkflowName' = OrElse(workflowData.name, "AI Generated Workflow")
    /\ toasts' = Append(toasts, Toast("success", "Created workflow"))
    /\ notified' = NewWorkflowId
    /\ prompt' = ""
    /\ isGenerating' = FALSE
    /\ persistence' = "ok"
    /\ pc' = "done"
    /\ UNCHANGED <<workflowId, selectedNodeId, existingWorkflow, workflowData,
                   validEdges, apiCalls, candidate, validation, store0>>
    /\ UNCHANGED stepVars

\* api.workflow.create rejects.
CreateRejects ==
    /\ pc = "awaitCreate"
    /\ Caught
    /\ persistence' = "failed"
    /\ UNCHANGED <<workflowId, nodes, edges, currentWorkflowId,
                   currentWorkflowName, selectedNodeId, prompt, existingWorkflow,
                   workflowData, validEdges, apiCalls, notified, candidate,
                   validation, store0>>
    /\ UNCHANGED stepVars

\* api.ai.generate resolves with c, validation passes, workflowId given: the
\* atoms are set and the handler runs up to await api.workflow.update.
GenerateResolvesUpdate ==
    /\ pc = "awaitGenerate"
    /\ \E c \in Candidates :
            LET v == ValidationPass(c)
                wd == v.workflowData
                sel == FirstSelected(wd) IN
            /\ v.incomplete = 0
            /\ Truthy(workflowId)
            /\ candidate' = c
            /\ workflowData' = wd
            /\ validEdges' = v.validEdges
            /\ validation' = "passed"
            /\ currentWorkflowId' = workflowId
            /\ nodes' = NodesOrEmpty(wd)
            /\ edges' = v.validEdges
            /\ currentWorkflowName' =
                  IF existingWorkflow
                  THEN (IF Truthy(wd.name) THEN wd.name ELSE currentWorkflowName)
                  ELSE OrElse(wd.name, "AI Generated Workflow")
            /\ toasts' = (toasts \o Warnings(v)) \o
                         <<Toast("success", IF existingWorkflow THEN "Modified workflow"
                                            ELSE "Generated workflow")>>
            /\ selectedNodeId' = IF sel # 0 THEN NodesOrEmpty(wd)[sel].id ELSE selectedNodeId
            /\ apiCalls' = Append(apiCalls,
                                  Call("workflow.update", workflowId, wd.name,
                                       wd.description, wd.nodes, wd.nodesPresent,
                                       v.validEdges))
            /\ pc' = "awaitUpdate"
            /\ UNCHANGED <<workflowId, isGenerating, prompt, existingWorkflow, notified,
                           persistence, store0>>
            /\ UNCHANGED stepVars

\* api.workflow.update resolves: the prompt is cleared.
UpdateResolves ==
    /\ pc = "awaitUpdate"
    /\ prompt' = ""
    /\ isGenerating' = FALSE
    /\ persistence' = "ok"
    /\ pc' = "done"
    /\ UNCHANGED <<workflowId, nodes, edges, currentWorkflowId,
                   currentWorkflowName, selectedNodeId, existingWorkflow,
                   workflowData, validEdges, toasts, apiCalls, notified,
                   candidate, validation, store0>>
    /\ UNCHANGED stepVars

\* api.workflow.update rejects.
UpdateRejects ==
    /\ pc = "awaitUpdate"
    /\ Caught
    /\ persistence' = "failed"
    /\ UNCHANGED <<workflowId, nodes, edges, currentWorkflowId,
                   currentWorkflowName, selectedNodeId, prompt, existingWorkflow,
                   workflowData, validEdges, apiCalls, notified, candidate,
                   validation, store0>>
    /\ UNCHANGED stepVars

(***************************************************************************)
(* Initial states of the component                                         *)
(***************************************************************************)
\* The canvas of a workflow without real nodes shows the "add" placeholder.
PlaceholderNodes == <<Node("add-1", "add", Undef, Undef, FALSE)>>

ExistingNodes == <<Node("t0", "trigger", "Manual", Undef, FALSE),
                   Node("a0", "action", Undef, "Send Email", TRUE)>>

ExistingEdges == <<Edge("t0", "a0", "animated")>>

UiInit ==
    /\ workflowId \in {Undef, "wf1"}
    /\ \/ /\ nodes = PlaceholderNodes
          /\ edges = <<>>
          /\ selectedNodeId = Undef
       \/ /\ nodes = ExistingNodes
          /\ edges = ExistingEdges
          /\ selectedNodeId = "a0"
    /\ currentWorkflowId = Undef
    /\ currentWorkflowName = "My Workflow"
    /\ isGenerating = FALSE
    /\ prompt = ""
    /\ pc = "idle"
    /\ existingWorkflow = FALSE
    /\ workflowData = NoData
    /\ validEdges = <<>>
    /\ toasts = <<>>
    /\ apiCalls = <<>>
    /\ notified = Undef
    /\ candidate = NoData
    /\ validation = "pending"
    /\ persistence = "none"
    /\ store0 = Atoms

(***************************************************************************)
(* Shopify steps: values                                                   *)
(***************************************************************************)
Steps == {"getOrder", "listOrders", "updateInventory", "createProduct",
          "generateImage"}

\* The credential set of a Shopify integration.
Creds(domain, token) ==
    [SHOPIFY_STORE_DOMAIN |-> domain, SHOPIFY_ACCESS_TOKEN |-> token,
     AI_GATEWAY_API_KEY |-> Undef]

\* The credential set of an AI gateway integration.
GatewayCreds(key) ==
    [SHOPIFY_STORE_DOMAIN |-> Undef, SHOPIFY_ACCESS_TOKEN |-> Undef,
     AI_GATEWAY_API_KEY |-> key]

\* The empty credential set {}.
NoCreds == Creds(Undef, Undef)

\* What the credential store may hold for an integration.
CredentialSets ==
    { Creds(d, t) : d \in {Undef, "https://shop.myshopify.com/"},
                    t \in {Undef, "shpat_1"} }
    \cup {GatewayCreds("vck_1")}

\* Characters of an adjustment string.
Chars == {"5", "-", "a", " "}

Digits == {"0", "1", "2", "3", "4", "5", "6", "7", "8", "9"}

DigitValue(c) ==
    CASE c = "0" -> 0 [] c = "1" -> 1 [] c = "2" -> 2 [] c = "3" -> 3
      [] c = "4" -> 4 [] c = "5" -> 5 [] c = "6" -> 6 [] c = "7" -> 7
      [] c = "8" -> 8 [] c = "9" -> 9

Strings == SeqsUpTo(Chars, MaxStrLen)

(***************************************************************************)
(* Number.parseInt(string, 10): leading white space is skipped, a sign is  *)
(* read, then the longest run of digits; NaN when there is no digit.       *)
(***************************************************************************)
RECURSIVE SkipWhiteSpace(_)
SkipWhiteSpace(str) ==
    IF str # <<>> /\ Head(str) = " " THEN SkipWhiteSpace(Tail(str)) ELSE str

RECURSIVE DigitPrefix(_)
DigitPrefix(str) ==
    IF str # <<>> /\ Head(str) \in Digits
    THEN <<Head(str)>> \o DigitPrefix(Tail(str))
    ELSE <<>>

RECURSIVE DigitsValue(_)
DigitsValue(ds) ==
    IF ds = <<>> THEN 0
    ELSE 10 * DigitsValue(SubSeq(ds, 1, Len(ds) - 1)) + DigitValue(ds[Len(ds)])

parseInt(str) ==
    LET s1 == SkipWhiteSpace(str)
        signed == s1 # <<>> /\ Head(s1) \in {"-", "+"}
        sign == IF s1 # <<>> /\ Head(s1) = "-" THEN -1 ELSE 1
        ds == DigitPrefix(IF signed THEN Tail(s1) ELSE s1)
    IN  [isNaN |-> ds = <<>>, value |-> sign * DigitsValue(ds)]

(***************************************************************************)
(* Shopify steps: results and HTTP responses                               *)
(***************************************************************************)
Failure(error) ==
    [success |-> FALSE, error |-> error, available |-> 0, previousQuantity |-> 0]

\* Variant: available is computed from the quantity the GET read.
SuccessComputed(available, previous) ==
    [success |-> TRUE, error |-> Undef, available |-> previous + adjustmentValue,
     previousQuantity |-> previous]

Success(available, previous) ==
    [success |-> TRUE, error |-> Undef, available |-> available,
     previousQuantity |-> previous]

NoResult == Failure(Undef)

NotConfigured(key) ==
    CASE key = "SHOPIFY_STORE_DOMAIN" ->
           "SHOPIFY_STORE_DOMAIN is not configured. Please add it in Project Integrations."
      [] key = "SHOPIFY_ACCESS_TOKEN" ->
           "SHOPIFY_ACCESS_TOKEN is not configured. Please add it in Project Integrations."
      [] key = "AI_GATEWAY_API_KEY" ->
           "AI_GATEWAY_API_KEY is not configured. Please add it in Project Integrations."

InvalidAdjustment == "Adjustment must be a valid integer (e.g., 10 or -5)"

LevelNotFound ==
    "Inventory level not found for the specified item and location. Make sure the inventory item is stocked at this location."

\* The catch block of each stepHandler; getErrorMessage(error) is the text
\* of the fault.
CaughtFailure(s) ==
    Failure(CASE s = "getOrder" -> "Failed to get order: <error message>"
              [] s = "listOrders" -> "Failed to list orders: <error message>"
              [] s = "updateInventory" -> "Failed to update inventory: <error message>"
              [] s = "createProduct" -> "Failed to create product: <error message>"
              [] s = "generateImage" -> "Image generation failed: <error message>")

Statuses == {404, 422}

\* `HTTP ${response.status}`
HttpStatusText(status) == IF status = 404 THEN "HTTP 404" ELSE "HTTP 422"

\* `Failed to get current inventory: HTTP ${getResponse.status}`
GetInventoryStatusText(status) ==
    IF status = 404 THEN "Failed to get current inventory: HTTP 404"
    ELSE "Failed to get current inventory: HTTP 422"

\* Bodies of a non-success response: text that is no JSON, the JSON value
\* null, or an object whose errors member is absent, "", a string, an object
\* or null.
ErrorBodies ==
    { [json |-> "unparsable", errors |-> Undef], [json |-> "null", errors |-> Undef] }
    \cup { [json |-> "object", errors |-> e] :
             e \in {Undef, "", "Not Found", ObjectValue, Null} }

\* JSON.stringify(value)
JSONstringify(v) ==
    CASE v = Undef -> Undef
      [] v = Null -> "null"
      [] v = ObjectValue -> "{\"base\":[\"is invalid\"]}"
      [] OTHER -> v

\* typeof value === "string"
IsString(v) == v \notin {Undef, Null, ObjectValue}

\* errorData.errors || `HTTP ${response.status}` (get-order.ts 146,
\* list-orders.ts 138)
ErrorsOrStatus(errors, status) == OrElse(errors, HttpStatusText(status))

\* errorData.errors || `Failed to get current inventory: HTTP ...`
\* (update-inventory.ts 90-91)
ErrorsOrGetInventoryStatus(errors, status) ==
    OrElse(errors, GetInventoryStatusText(status))

\* typeof errors === "string" ? errors : JSON.stringify(errors), then
\* errorMessage || `HTTP ${response.status}` (update-inventory.ts 127-133)
ErrorMessageOrStatus(errors, status) ==
    OrElse(IF IsString(errors) THEN errors ELSE JSONstringify(errors),
           HttpStatusText(status))

\* The if (!response.ok) block of a step's call (first or second).
NotOkResult(s, second, status, body) ==
    IF body.json # "object" THEN CaughtFailure(s)
    ELSE IF s \in {"getOrder", "listOrders"}
         THEN Failure(ErrorsOrStatus(body.errors, status))
    ELSE IF s = "updateInventory" /\ ~second
         THEN Failure(ErrorsOrGetInventoryStatus(body.errors, status))
    ELSE Failure(ErrorMessageOrStatus(body.errors, status))

\* The method of a step's first fetch call.
FirstMethod(s) == IF s = "createProduct" THEN "POST" ELSE "GET"

\* What a fetch call ended with: the promise rejected, or a response with a
\* status and a body.
Rejected == [kind |-> "rejected", status |-> 0, json |-> "none", errors |-> Undef]

NotOk(status, body) ==
    [kind |-> "not ok", status |-> status, json |-> body.json, errors |-> body.errors]

Ok(json) == [kind |-> "ok", status |-> 200, json |-> json, errors |-> Undef]

\* Bodies of a success response: text that is no JSON, JSON without the
\* expected member, or the documented shape.
OkBodies == {"unparsable", "malformed", "valid"}

\* Bodies of a success response to the inventory_levels GET: as above, with
\* the documented shape holding no level or one level.
InventoryGetBodies == {"unparsable", "malformed", "empty", "levels"}

\* Variant: an empty list of levels is read as quantity 0.
AfterInventoryGetUnchecked(json) ==
    IF json \in {"unparsable", "malformed"} THEN "caught" ELSE "adjust"

\* What stepHandler does with a success response to the inventory_levels
\* GET (update-inventory.ts 95-107).
AfterInventoryGet(json) ==
    CASE json \in {"unparsable", "malformed"} -> "caught"
      [] json = "empty" -> "not found"
      [] json = "levels" -> "adjust"

\* withStepLogging(input, fn): logs and forwards the result of fn.
withStepLogging(r) == r

\* fetchCredentials(integrationId): the stored credential set.
fetchCredentials(id) == integrationStore

(***************************************************************************)
(* Shopify steps: one invocation of a step function.  Every await is a     *)
(* position of spc.                                                        *)
(***************************************************************************)
\* The step function up to withStepLogging: credentials are fetched only
\* when input.integrationId is given.
InvokeStep ==
    /\ spc = "start"
    /\ credentials' = IF Truthy(integrationId) THEN fetchCredentials(integrationId)
                      ELSE NoCreds
    /\ resolverCalls' = IF Truthy(integrationId) THEN resolverCalls + 1
                        ELSE resolverCalls
    /\ spc' = IF step = "generateImage" THEN "image" ELSE "handler"
    /\ UNCHANGED <<step, integrationId, integrationStore, adjustment,
                   adjustmentValue, previousQuantity, httpCalls, responses,
                   result, serverQty>>
    /\ UNCHANGED <<getRead, interfered>>
    /\ UNCHANGED uiVars

\* Variant: only the store domain is looked at.
CredentialsConfiguredDomainOnly == Truthy(credentials.SHOPIFY_STORE_DOMAIN)

\* Neither if (!storeDomain) nor if (!accessToken) returns.
CredentialsConfigured ==
    /\ Truthy(credentials.SHOPIFY_STORE_DOMAIN)
    /\ Truthy(credentials.SHOPIFY_ACCESS_TOKEN)

\* stepHandler returns for a missing credential.
HandlerMissingCredential ==
    /\ spc = "handler"
    /\ ~CredentialsConfigured
    /\ result' = withStepLogging(
                     Failure(IF ~Truthy(credentials.SHOPIFY_STORE_DOMAIN)
                             THEN NotConfigured("SHOPIFY_STORE_DOMAIN")
                             ELSE NotConfigured("SHOPIFY_ACCESS_TOKEN")))
    /\ spc' = "done"
    /\ UNCHANGED <<step, integrationId, integrationStore, adjustment, credentials,
                   resolverCalls, adjustmentValue, previousQuantity, httpCalls,
                   responses, serverQty>>
    /\ UNCHANGED <<getRead, interfered>>
    /\ UNCHANGED uiVars

\* updateInventoryStep: stepHandler returns for an adjustment that parses
\* to NaN.
HandlerInvalidAdjustment ==
    /\ spc = "handler"
    /\ CredentialsConfigured
    /\ step = "updateInventory"
    /\ parseInt(adjustment).isNaN
    /\ result' = withStepLogging(Failure(InvalidAdjustment))
    /\ spc' = "done"
    /\ UNCHANGED <<step, integrationId, integrationStore, adjustment, credentials,
                   resolverCalls, adjustmentValue, previousQuantity, httpCalls,
                   responses, serverQty>>
    /\ UNCHANGED <<getRead, interfered>>
    /\ UNCHANGED uiVars

\* stepHandler runs up to its first await fetch.
HandlerFetches ==
    /\ spc = "handler"
    /\ CredentialsConfigured
    /\ step = "updateInventory" => ~parseInt(adjustment).isNaN
    /\ adjustmentValue' = IF step = "updateInventory" THEN parseInt(adjustment).value
                          ELSE adjustmentValue
    /\ httpCalls' = Append(httpCalls, FirstMethod(step))
    /\ spc' = "awaitFirst"
    /\ UNCHANGED <<step, integrationId, integrationStore, adjustment, credentials,
                   resolverCalls, previousQuantity, responses, result, serverQty>>
    /\ UNCHANGED <<getRead, interfered>>
    /\ UNCHANGED uiVars

\* The first fetch rejects (transport fault): the catch block returns.
FirstRejects ==
    /\ spc = "awaitFirst"
    /\ responses' = Append(responses, Rejected)
    /\ result' = withStepLogging(CaughtFailure(step))
    /\ spc' = "done"
    /\ UNCHANGED <<step, integrationId, integrationStore, adjustment, credentials,
                   resolverCalls, adjustmentValue, previousQuantity, httpCalls,
                   serverQty>>
    /\ UNCHANGED <<getRead, interfered>>
    /\ UNCHANGED uiVars

\* The first fetch resolves with a non-success status.
FirstNotOk ==
    /\ spc = "awaitFirst"
    /\ \E status \in Statuses, body \in ErrorBodies :
          /\ responses' = Append(responses, NotOk(status, body))
          /\ result' = withStepLogging(NotOkResult(step, FALSE, status, body))
    /\ spc' = "done"
    /\ UNCHANGED <<step, integrationId, integrationStore, adjustment, credentials,
                   resolverCalls, adjustmentValue, previousQuantity, httpCalls,
                   serverQty>>
    /\ UNCHANGED <<getRead, interfered>>
    /\ UNCHANGED uiVars

\* getOrderStep, listOrdersStep, createProductStep: the only fetch resolves
\* with a success status; a body that does not parse or lacks the expected
\* member raises inside the try block.
FirstOk ==
    /\ spc = "awaitFirst"
    /\ step # "updateInventory"
    /\ \E json \in OkBodies :
          /\ responses' = Append(responses, Ok(json))
          /\ result' = withStepLogging(IF json = "valid" THEN Success(0, 0)
                                       ELSE CaughtFailure(step))
    /\ spc' = "done"
    /\ UNCHANGED <<step, integrationId, integrationStore, adjustment, credentials,
                   resolverCalls, adjustmentValue, previousQuantity, httpCalls,
                   serverQty>>
    /\ UNCHANGED <<getRead, interfered>>
    /\ UNCHANGED uiVars

\* updateInventoryStep: the GET resolves with a success status and the
\* handler returns without adjusting.
InventoryGetFails ==
    /\ spc = "awaitFirst"
    /\ step = "updateInventory"
    /\ \E json \in InventoryGetBodies :
          /\ AfterInventoryGet(json) # "adjust"
          /\ responses' = Append(responses, Ok(json))
          /\ result' = withStepLogging(IF AfterInventoryGet(json) = "not found"
                                       THEN Failure(LevelNotFound)
                                       ELSE CaughtFailure(step))
    /\ spc' = "done"
    /\ UNCHANGED <<step, integrationId, integrationStore, adjustment, credentials,
                   resolverCalls, adjustmentValue, previousQuantity, httpCalls,
                   serverQty>>
    /\ UNCHANGED <<getRead, interfered>>
    /\ UNCHANGED uiVars

\* updateInventoryStep: the GET resolves with a level; the handler keeps
\* its quantity and runs up to await fetch(adjustUrl).
InventoryGetAdjusts ==
    /\ spc = "awaitFirst"
    /\ step = "updateInventory"
    /\ \E json \in InventoryGetBodies :
          /\ AfterInventoryGet(json) = "adjust"
          /\ responses' = Append(responses, Ok(json))
          /\ previousQuantity' = IF json = "levels" THEN serverQty ELSE 0
    /\ httpCalls' = Append(httpCalls, "POST")
    /\ spc' = "awaitSecond"
    /\ getRead' = serverQty
    /\ UNCHANGED <<step, integrationId, integrationStore, adjustment, credentials,
                   resolverCalls, adjustmentValue, result, serverQty, interfered>>
    /\ UNCHANGED uiVars

\* Another client of the shop changes the level while the step awaits.
ExternalAdjust ==
    /\ step = "updateInventory"
    /\ spc \in {"awaitFirst", "awaitSecond"}
    /\ \E q \in 0..MaxQty :
          /\ q # serverQty
          /\ serverQty' = q
    /\ interfered' = (interfered \/ spc = "awaitSecond")
    /\ UNCHANGED <<step, integrationId, integrationStore, adjustment, spc,
                   credentials, resolverCalls, adjustmentValue, previousQuantity,
                   httpCalls, responses, result, getRead>>
    /\ UNCHANGED uiVars

\* updateInventoryStep: the POST rejects.
SecondRejects ==
    /\ spc = "awaitSecond"
    /\ responses' = Append(responses, Rejected)
    /\ result' = withStepLogging(CaughtFailure(step))
    /\ spc' = "done"
    /\ UNCHANGED <<step, integrationId, integrationStore, adjustment, credentials,
                   resolverCalls, adjustmentValue, previousQuantity, httpCalls,
                   serverQty>>
    /\ UNCHANGED <<getRead, interfered>>
    /\ UNCHANGED uiVars

\* updateInventoryStep: the POST resolves with a non-success status.
SecondNotOk ==
    /\ spc = "awaitSecond"
    /\ \E status \in Statuses, body \in ErrorBodies :
          /\ responses' = Append(responses, NotOk(status, body))
          /\ result' = withStepLogging(NotOkResult(step, TRUE, status, body))
    /\ spc' = "done"
    /\ UNCHANGED <<step, integrationId, integrationStore, adjustment, credentials,
                   resolverCalls, adjustmentValue, previousQuantity, httpCalls,
                   serverQty>>
    /\ UNCHANGED <<getRead, interfered>>
    /\ UNCHANGED uiVars

\* updateInventoryStep: the shop applies the adjustment and the POST
\* resolves with a success status; the result carries the level of the
\* response and the quantity the GET read.
SecondOk ==
    /\ spc = "awaitSecond"
    /\ serverQty' = serverQty + adjustmentValue
    /\ \E json \in OkBodies :
          /\ responses' = Append(responses, Ok(json))
          /\ result' = withStepLogging(IF json = "valid"
                                       THEN Success(serverQty', previousQuantity)
                                       ELSE CaughtFailure(step))
    /\ spc' = "done"
    /\ UNCHANGED <<step, integrationId, integrationStore, adjustment, credentials,
                   resolverCalls, adjustmentValue, previousQuantity, httpCalls>>
    /\ UNCHANGED <<getRead, interfered>>
    /\ UNCHANGED uiVars

\* generateImageStep returns for a missing API key.
GenerateImageMissingKey ==
    /\ spc = "image"
    /\ ~Truthy(credentials.AI_GATEWAY_API_KEY)
    /\ result' = Failure(NotConfigured("AI_GATEWAY_API_KEY"))
    /\ spc' = "done"
    /\ UNCHANGED <<step, integrationId, integrationStore, adjustment, credentials,
                   resolverCalls, adjustmentValue, previousQuantity, httpCalls,
                   responses, serverQty>>
    /\ UNCHANGED <<getRead, interfered>>
    /\ UNCHANGED uiVars

\* generateImageStep runs up to await generateImage(...).
GenerateImageCalls ==
    /\ spc = "image"
    /\ Truthy(credentials.AI_GATEWAY_API_KEY)
    /\ httpCalls' = Append(httpCalls, "generateImage")
    /\ spc' = "awaitImage"
    /\ UNCHANGED <<step, integrationId, integrationStore, adjustment, credentials,
                   resolverCalls, adjustmentValue, previousQuantity, responses,
                   result, serverQty>>
    /\ UNCHANGED <<getRead, interfered>>
    /\ UNCHANGED uiVars

\* generateImage resolves, with or without an image.
GenerateImageResolves ==
    /\ spc = "awaitImage"
    /\ \E json \in {"image", "no image"} :
          /\ responses' = Append(responses, Ok(json))
          /\ result' = IF json = "image" THEN Success(0, 0)
                       ELSE Failure("Failed to generate image: No image returned")
    /\ spc' = "done"
    /\ UNCHANGED <<step, integrationId, integrationStore, adjustment, credentials,
                   resolverCalls, adjustmentValue, previousQuantity, httpCalls,
                   serverQty>>
    /\ UNCHANGED <<getRead, interfered>>
    /\ UNCHANGED uiVars

\* generateImage rejects: the catch block returns.
GenerateImageRejects ==
    /\ spc = "awaitImage"
    /\ responses' = Append(responses, Rejected)
    /\ result' = CaughtFailure(step)
    /\ spc' = "done"
    /\ UNCHANGED <<step, integrationId, integrationStore, adjustment, credentials,
                   resolverCalls, adjustmentValue, previousQuantity, httpCalls,
                   serverQty>>
    /\ UNCHANGED <<getRead, interfered>>
    /\ UNCHANGED uiVars

StepInit ==
    /\ step \in Steps
    /\ integrationId \in {Undef, "", "int-1"}
    /\ integrationStore \in CredentialSets
    /\ adjustment \in (IF step = "updateInventory" THEN Strings ELSE {<<>>})
    /\ spc = "start"
    /\ credentials = NoCreds
    /\ resolverCalls = 0
    /\ adjustmentValue = 0
    /\ previousQuantity = 0
    /\ httpCalls = <<>>
    /\ responses = <<>>
    /\ result = NoResult
    /\ serverQty \in 0..MaxQty
    /\ getRead = -1
    /\ interfered = FALSE

\* The step side at rest, for the specification of the component.
StepIdle ==
    /\ step = "none"
    /\ integrationId = Undef
    /\ integrationStore = NoCreds
    /\ adjustment = <<>>
    /\ spc = "idle"
    /\ credentials = NoCreds
    /\ resolverCalls = 0
    /\ adjustmentValue = 0
    /\ previousQuantity = 0
    /\ httpCalls = <<>>
    /\ responses = <<>>
    /\ result = NoResult
    /\ serverQty = 0
    /\ getRead = -1
    /\ interfered = FALSE

Init == UiInit /\ StepIdle

Next ==
    \/ \E p \in Prompts : SetPrompt(p)
    \/ HandleGenerateReturns
    \/ HandleGenerate
    \/ GenerateRejects
    \/ GenerateResolvesIncomplete
    \/ GenerateResolvesCreate
    \/ CreateResolves
    \/ CreateRejects
    \/ GenerateResolvesUpdate
    \/ UpdateResolves
    \/ UpdateRejects

Spec == Init /\ [][Next]_vars

\* The component at rest, for the specification of the steps.
UiIdle ==
    /\ UiInit
    /\ workflowId = Undef
    /\ nodes = PlaceholderNodes

InitStep == UiIdle /\ StepInit

NextStep ==
    \/ InvokeStep
    \/ HandlerMissingCredential
    \/ HandlerInvalidAdjustment
    \/ HandlerFetches
    \/ FirstRejects
    \/ FirstNotOk
    \/ FirstOk
    \/ InventoryGetFails
    \/ InventoryGetAdjusts
    \/ ExternalAdjust
    \/ SecondRejects
    \/ SecondNotOk
    \/ SecondOk
    \/ GenerateImageMissingKey
    \/ GenerateImageCalls
    \/ GenerateImageResolves
    \/ GenerateImageRejects

SpecStep == InitStep /\ [][NextStep]_vars

(***************************************************************************)
(* Properties                                                              *)
(***************************************************************************)
IdsOf(ns) == { ns[i].id : i \in 1..Len(ns) }

TriggersOf(ns) == SelectSeq(ns, LAMBDA n : n.data.type = "trigger")

\* Ids of the triggers of the AI response after its first one.
DroppedTriggerIds ==
    { TriggersOf(candidate.nodes)[i].id : i \in 2..Len(TriggersOf(candidate.nodes)) }

\* A trigger without config.triggerType or an action without config.actionType.
LacksRequiredKey(n) ==
    \/ n.data.type = "trigger" /\ n.data.config.triggerType \in {Undef, Null, ""}
    \/ n.data.type = "action" /\ n.data.config.actionType \in {Undef, Null, ""}

Normalized(es) == [i \in 1..Len(es) |-> [es[i] EXCEPT !.type = "animated"]]

PersistCalls ==
    { i \in 1..Len(apiCalls) : apiCalls[i].api \in {"workflow.create", "workflow.update"} }

\* The handler has set the atoms from the AI response.
Stored == validation = "passed" /\ (workflowId # Undef \/ persistence = "ok")

\* The graphs handleGenerate has accepted: what it passed to
\* api.workflow.create or api.workflow.update and what it stored.
GraphsAccepted ==
    { [nodes |-> IF apiCalls[i].nodesPresent THEN apiCalls[i].nodes ELSE <<>>,
       edges |-> apiCalls[i].edges] : i \in PersistCalls }
    \cup (IF Stored THEN {[nodes |-> nodes, edges |-> edges]} ELSE {})

\* Nothing of the AI response was accepted.
NothingAccepted == PersistCalls = {} /\ Atoms = store0

\* C1: when the AI response has more than one trigger node, every graph
\* handleGenerate accepts has exactly one trigger node, the first trigger of
\* the response, and no edge whose source or target is the id of a dropped
\* trigger.
C1_SingleTrigger ==
    (validation = "passed" /\ Len(TriggersOf(candidate.nodes)) > 1) =>
        /\ GraphsAccepted # {}
        /\ \A g \in GraphsAccepted :
              /\ TriggersOf(g.nodes) = <<TriggersOf(candidate.nodes)[1]>>
              /\ \A i \in 1..Len(g.edges) :
                    /\ g.edges[i].source \notin DroppedTriggerIds
                    /\ g.edges[i].target \notin DroppedTriggerIds

C1_Witness ==
    /\ validation = "passed"
    /\ persistence = "ok"
    /\ Len(TriggersOf(candidate.nodes)) > 1
    /\ \E i \in 1..Len(candidate.edges) :
          candidate.edges[i].target \in DroppedTriggerIds

\* C2 as stated: an AI response with a trigger lacking triggerType or an
\* action lacking actionType, at any position, fails validation and nothing
\* of it is accepted.
C2_AnyIncompleteFails ==
    (/\ validation # "pending"
     /\ \E i \in 1..Len(candidate.nodes) : LacksRequiredKey(candidate.nodes[i]))
    => (validation = "failed" /\ NothingAccepted)

\* The nodes the completeness check looks at: the first trigger and every
\* node that is no trigger.
CheckedForCompleteness ==
    { candidate.nodes[i] : i \in { j \in 1..Len(candidate.nodes) :
          \/ candidate.nodes[j].data.type # "trigger"
          \/ \A k \in 1..(j - 1) : candidate.nodes[k].data.type # "trigger" } }

\* C2 amended: an AI response whose first trigger lacks triggerType or one of
\* whose actions lacks actionType fails validation and nothing of it is
\* accepted; a response whose only incomplete nodes are triggers after the
\* first passes validation (those triggers are dropped before the check).
C2_CheckedIncompleteFails ==
    validation # "pending" =>
        IF \E n \in CheckedForCompleteness : LacksRequiredKey(n)
        THEN validation = "failed" /\ NothingAccepted
        ELSE validation = "passed"

C2_Witness ==
    /\ validation = "failed"
    /\ Len(candidate.nodes) > 1
    /\ ~LacksRequiredKey(candidate.nodes[1])
    /\ LacksRequiredKey(candidate.nodes[Len(candidate.nodes)])
    /\ candidate.nodes[Len(candidate.nodes)].data.type = "action"

\* C3 as stated: in every accepted graph each edge's source and target is
\* the id of a node of the accepted node list.
C3_NoDanglingEdge ==
    validation = "passed" =>
        \A g \in GraphsAccepted : \A i \in 1..Len(g.edges) :
            /\ g.edges[i].source \in IdsOf(g.nodes)
            /\ g.edges[i].target \in IdsOf(g.nodes)

\* C3 amended: in every accepted graph each edge's source and target is the
\* id of an accepted node or an id that no node of the AI response carries;
\* the accepted edges are the edges of the response that do not reference a
\* dropped trigger, so an edge to an id without any node is kept.
C3_DanglingOnlyIfUnknownId ==
    validation = "passed" =>
        \A g \in GraphsAccepted :
            /\ \A i \in 1..Len(g.edges) :
                  \A end \in {g.edges[i].source, g.edges[i].target} :
                      end \in IdsOf(g.nodes) \/ end \notin IdsOf(candidate.nodes)
            /\ g.edges = SelectSeq(Normalized(candidate.edges),
                                   LAMBDA e : /\ e.source \notin DroppedTriggerIds
                                              /\ e.target \notin DroppedTriggerIds)

C3_Witness ==
    /\ validation = "passed"
    /\ persistence = "ok"
    /\ \E i \in 1..Len(edges) : edges[i].target \notin IdsOf(nodes)

\* C5: when validation fails for incomplete nodes, no create or update call
\* is made, the atoms are as before, and no notice of a corrected graph (no
\* trigger-reduction warning, no success toast) is emitted.
C5_FailureEmitsNothing ==
    validation = "failed" =>
        /\ NothingAccepted
        /\ \A i \in 1..Len(toasts) : toasts[i].level \notin {"warning", "success"}

\* C6 as stated: an AI response in which every trigger has triggerType and
\* every action has actionType passes validation and is accepted unchanged
\* except for the edge type.
C6_CompleteUnchanged ==
    (/\ validation # "pending"
     /\ \A i \in 1..Len(candidate.nodes) : ~LacksRequiredKey(candidate.nodes[i]))
    => /\ validation = "passed"
       /\ \A g \in GraphsAccepted :
             g.nodes = candidate.nodes /\ g.edges = Normalized(candidate.edges)

\* C6 amended: such a response passes validation, and when it has at most
\* one trigger node it is accepted unchanged except for the edge type.
C6_CompleteSingleTriggerUnchanged ==
    (/\ validation # "pending"
     /\ \A i \in 1..Len(candidate.nodes) : ~LacksRequiredKey(candidate.nodes[i]))
    => /\ validation = "passed"
       /\ Len(TriggersOf(candidate.nodes)) <= 1 =>
             \A g \in GraphsAccepted :
                 g.nodes = candidate.nodes /\ g.edges = Normalized(candidate.edges)

C6_Witness ==
    /\ validation = "passed"
    /\ persistence = "ok"
    /\ Len(TriggersOf(candidate.nodes)) = 1
    /\ Len(candidate.nodes) > 1
    /\ candidate.nodes[1].data.type # "trigger"
    /\ \E i \in 1..Len(candidate.edges) : candidate.edges[i].type # "animated"
    /\ nodes = candidate.nodes

\* C7: every edge of an accepted graph has type "animated", whatever type the
\* AI gave it, and a response without an edges field is accepted with no edge.
C7_EdgesAnimated ==
    validation = "passed" =>
        \A g \in GraphsAccepted :
            /\ \A i \in 1..Len(g.edges) : g.edges[i].type = "animated"
            /\ ~candidate.edgesPresent => g.edges = <<>>

C7_Witness ==
    /\ validation = "passed"
    /\ persistence = "ok"
    /\ edges # <<>>
    /\ \E i \in 1..Len(candidate.edges) : candidate.edges[i].type = "default"

\* C8: the validation pass run on a graph it accepted yields the same nodes
\* and edges, finds no incomplete node and emits no warning.
C8_Idempotent ==
    validation = "passed" =>
        \A g \in GraphsAccepted :
            LET again == ValidationPass([nodes |-> g.nodes, nodesPresent |-> TRUE,
                                         edges |-> g.edges, edgesPresent |-> TRUE,
                                         name |-> candidate.name,
                                         description |-> candidate.description])
            IN  /\ again.incomplete = 0
                /\ ~again.warned
                /\ again.workflowData.nodes = g.nodes
                /\ again.validEdges = g.edges

C8_Witness ==
    /\ validation = "passed"
    /\ persistence = "ok"
    /\ Len(nodes) < Len(candidate.nodes)
    /\ \E i \in 1..Len(toasts) : toasts[i].level = "warning"
    /\ edges # <<>>

(***************************************************************************)
(* Properties of the steps                                                 *)
(***************************************************************************)
\* C4: a step that has returned gave a success or a failure whose error is
\* a non-empty string.
C4_ResultShape ==
    spc = "done" =>
        \/ result.success
        \/ result.error \notin {Undef, Null, ObjectValue, ""}

\* C9: updateInventoryStep issues the POST only as its second call, after
\* the GET answered with a success status and a level; when the GET ends any
\* other way the step has returned a failure and no POST was issued.
C9_ReadBeforeWrite ==
    step = "updateInventory" =>
        /\ \A i \in 1..Len(httpCalls) :
              httpCalls[i] = "POST" =>
                  /\ i = 2
                  /\ httpCalls[1] = "GET"
                  /\ responses # <<>>
                  /\ responses[1] = Ok("levels")
        /\ (responses # <<>> /\ responses[1] # Ok("levels")) =>
              /\ spc = "done"
              /\ ~result.success
              /\ httpCalls = <<"GET">>

C9_Witness ==
    /\ step = "updateInventory"
    /\ spc = "done"
    /\ responses = <<Ok("empty")>>
    /\ result = Failure(LevelNotFound)
    /\ httpCalls = <<"GET">>

\* An integer numeral: an optional sign and one or more digits, white space
\* around it allowed.
IsIntegerNumeral(str) ==
    LET inner == { i \in 1..Len(str) : str[i] # " " }
        first == CHOOSE i \in inner : \A j \in inner : i <= j
        last == CHOOSE i \in inner : \A j \in inner : j <= i
        trimmed == IF inner = {} THEN <<>> ELSE SubSeq(str, first, last)
        body == IF trimmed # <<>> /\ Head(trimmed) \in {"-", "+"}
                THEN Tail(trimmed) ELSE trimmed
    IN  body # <<>> /\ \A i \in 1..Len(body) : body[i] \in Digits

\* C10: updateInventoryStep with its credentials configured and an
\* adjustment that is no integer numeral returns the failure "Adjustment must
\* be a valid integer (e.g., 10 or -5)" and issues no HTTP call.
C10_RejectsNonNumeral ==
    (/\ step = "updateInventory"
     /\ spc \notin {"start", "handler"}
     /\ CredentialsConfigured
     /\ ~IsIntegerNumeral(adjustment))
    => (httpCalls = <<>> /\ result = Failure(InvalidAdjustment))

\* The credential keys a step requires, in the order the step checks them.
RequiredKeys(s) ==
    IF s = "generateImage" THEN <<"AI_GATEWAY_API_KEY">>
    ELSE <<"SHOPIFY_STORE_DOMAIN", "SHOPIFY_ACCESS_TOKEN">>

\* The credential set the step works with: the stored set of the referenced
\* integration, the empty set when no reference is given.
ResolvedSet == IF integrationId \in {Undef, ""} THEN NoCreds ELSE integrationStore

MissingKeys ==
    { RequiredKeys(step)[i] : i \in { j \in 1..Len(RequiredKeys(step)) :
                                        ResolvedSet[RequiredKeys(step)[j]] = Undef } }

\* C11: a step invoked without an integration reference, or whose resolved
\* credential set lacks a required key, returns the failure "<KEY> is not
\* configured. Please add it in Project Integrations." for a key that is
\* missing and issues no external call; the credential resolver is called
\* only when a reference is given, and then once.
C11_MissingCredential ==
    /\ MissingKeys # {} =>
          /\ httpCalls = <<>>
          /\ spc \notin {"start", "idle", "handler", "image"} =>
                /\ spc = "done"
                /\ \E k \in MissingKeys : result = Failure(NotConfigured(k))
    /\ resolverCalls = IF integrationId \in {Undef, ""} \/ spc \in {"start", "idle"}
                       THEN 0 ELSE 1

C11_Witness ==
    /\ spc = "done"
    /\ integrationId = "int-1"
    /\ resolverCalls = 1
    /\ step = "updateInventory"
    /\ integrationStore = Creds("https://shop.myshopify.com/", Undef)
    /\ result = Failure(NotConfigured("SHOPIFY_ACCESS_TOKEN"))
    /\ httpCalls = <<>>

\* The last response of the external API, when the step has returned on it.
LastResponse == responses[Len(responses)]

\* C12: a Shopify step that returned on a non-success response gave a
\* failure whose message is the errors text of the body when the body
\* carries one, and exactly "HTTP <status>" when the body carries none, is
\* absent or is no JSON; for the GET and for the POST of updateInventoryStep
\* alike.
C12_UpstreamMessage ==
    (/\ step \in {"getOrder", "listOrders", "updateInventory", "createProduct"}
     /\ spc = "done"
     /\ responses # <<>>
     /\ LastResponse.kind = "not ok")
    => /\ ~result.success
       /\ (LastResponse.json = "object"
              /\ LastResponse.errors \notin {Undef, Null, "", ObjectValue})
            => result.error = LastResponse.errors
       /\ (LastResponse.json # "object" \/ LastResponse.errors \in {Undef, Null, ""})
            => result.error = HttpStatusText(LastResponse.status)

(***************************************************************************)
(* Properties of the stored graph                                          *)
(***************************************************************************)
\* The corrected AI response: with more than one trigger, the first trigger
\* followed by the nodes that are no trigger; the edges, typed "animated",
\* that reference no dropped trigger.
CorrectedNodes ==
    IF Len(TriggersOf(candidate.nodes)) > 1
    THEN <<TriggersOf(candidate.nodes)[1]>>
         \o SelectSeq(candidate.nodes, LAMBDA n : n.data.type # "trigger")
    ELSE candidate.nodes

CorrectedEdges ==
    SelectSeq(Normalized(candidate.edges),
              LAMBDA e : /\ e.source \notin DroppedTriggerIds
                         /\ e.target \notin DroppedTriggerIds)

StoredIsCorrected == nodes = CorrectedNodes /\ edges = CorrectedEdges

MarkedSelected == { i \in 1..Len(CorrectedNodes) : CorrectedNodes[i].selected }

\* C14: after a handleGenerate that succeeded, on the creation path and on
\* the update path alike, the active selection is the id of the first node
\* of the corrected graph marked selected, and the selection from before the
\* call when no node is marked.
C14_SelectionFollowsMarked ==
    (pc = "done" /\ validation = "passed" /\ persistence = "ok") =>
        IF MarkedSelected = {}
        THEN selectedNodeId = store0.selectedNodeId
        ELSE \E i \in MarkedSelected :
                /\ \A j \in MarkedSelected : i <= j
                /\ selectedNodeId = CorrectedNodes[i].id

\* C15: when another client changed the inventory level between the answer
\* to the GET and the POST, and the POST answers with a success status and
\* the documented body, updateInventoryStep returns success with
\* previousQuantity the level its GET read and available the level of the
\* POST response; no error is reported for the difference.
C15_AcceptedInconsistency ==
    (/\ step = "updateInventory"
     /\ spc = "done"
     /\ interfered
     /\ Len(responses) = 2
     /\ responses[2] = Ok("valid"))
    => /\ result.success
       /\ result.error = Undef
       /\ result.previousQuantity = getRead
       /\ result.available = serverQty

C15_Witness ==
    /\ step = "updateInventory"
    /\ spc = "done"
    /\ interfered
    /\ result.success
    /\ result.previousQuantity = getRead
    /\ adjustmentValue = 5
    /\ result.available # result.previousQuantity + adjustmentValue

(***************************************************************************)
(* Properties of the isGenerating flag                                     *)
(***************************************************************************)
InFlight == pc \in {"awaitGenerate", "awaitCreate", "awaitUpdate"}

GenerateCalls == { i \in 1..Len(apiCalls) : apiCalls[i].api = "ai.generate" }

\* The step issues an AI call.
IssuesGenerateCall ==
    /\ Len(apiCalls') > Len(apiCalls)
    /\ apiCalls'[Len(apiCalls')].api = "ai.generate"

StartsGeneration ==
    /\ ~isGenerating
    /\ Truthy(Trim(prompt))
    /\ isGenerating'

\* A step taken with a blank prompt or with isGenerating true that is not a
\* step of the generation in flight.
RejectedCall ==
    /\ (~Truthy(Trim(prompt)) \/ isGenerating)
    /\ pc' = pc

ChangesNothing ==
    UNCHANGED <<nodes, edges, currentWorkflowId, currentWorkflowName,
                selectedNodeId, isGenerating, apiCalls, toasts>>

\* C16: isGenerating is true exactly while a generation is in flight, and
\* false again once it has ended, however it ended; at most one AI call has
\* been issued per generation; an AI call is issued only by a step taken
\* with a non-blank prompt and isGenerating false, and that step sets
\* isGenerating; a step taken with a blank prompt or with isGenerating true
\* that is not the end of the generation in flight changes nothing.
C16_GeneratingExactlyInFlight ==
    /\ [](/\ isGenerating <=> InFlight
          /\ pc = "done" => ~isGenerating
          /\ Cardinality(GenerateCalls) = IF pc = "idle" THEN 0 ELSE 1)
    /\ [][IssuesGenerateCall => StartsGeneration]_vars
    /\ [][RejectedCall => ChangesNothing]_vars

C16_Witness ==
    /\ pc = "done"
    /\ ~isGenerating
    /\ validation = "passed"
    /\ persistence = "failed"
    /\ Cardinality(GenerateCalls) = 1

\* C17: a handleGenerate whose api.workflow.create or api.workflow.update
\* call failed leaves the stored nodes and edges, the workflow name and the
\* selection as they were before the call, so that the stored graph is the
\* graph of the last successful persistence call.
C17_FailedPersistenceLeavesStore ==
    (pc = "done" /\ persistence = "failed") =>
        /\ nodes = store0.nodes
        /\ edges = store0.edges
        /\ currentWorkflowName = store0.currentWorkflowName
        /\ selectedNodeId = store0.selectedNodeId

====
